---- MODULE Spec2Model ----
(***************************************************************************)
(* A model of pulp_rust: the Cargo sparse-index handlers (views.py), the   *)
(* URL routing (urls.py), the content and repository view sets             *)
(* (viewsets.py), the add_cached_content serializer (serializers.py) and   *)
(* the synchronization / cache-promotion jobs they dispatch.               *)
(*                                                                         *)
(* Text that the code inspects character by character (crate names,        *)
(* version strings, URL pieces) is a sequence of code points; identifiers  *)
(* the code only compares for equality are TLA+ strings.                   *)
(***************************************************************************)
EXTENDS Integers, Sequences, FiniteSets, TLC

VARIABLES
    domainEnabled,  \* settings.DOMAIN_ENABLED
    content,        \* RustContent table: sequence of rows, pk = position
    versions,       \* per repository: its complete repository versions, number n at n+1
    repoRemote,     \* Repository.remote of each repository
    dists,          \* RustDistribution table, keyed by <<domain, base_path>>
    remoteArtifacts,\* rows linking a content row to the remote it was fetched from
    clock,          \* pulp_created timestamps are drawn from this logical clock
    tasks,          \* the jobs handed to the tasking system, in dispatch order
    resp            \* the last request and the response it was answered with

vars == <<domainEnabled, content, versions, repoRemote, dists, remoteArtifacts,
          clock, tasks, resp>>

----------------------------------------------------------------------------
(* Bounds of the model.                                                    *)

MaxContent == 2
MaxVersions == 1
MaxTasks == 2
MaxNewVersions == 2
MaxClock == 4

----------------------------------------------------------------------------
(* Text.                                                                   *)

NoneStr == "None"
NoneSeq == <<>>

Slash == <<47>>
Dash == <<45>>
DotCrate == <<46, 99, 114, 97, 116, 101>>
ColonSlashSlash == <<58, 47, 47>>

\* str.lower() on ASCII text
LowerChar(c) == IF c >= 65 /\ c <= 90 THEN c + 32 ELSE c

Lower(s) == [i \in 1..Len(s) |-> LowerChar(s[i])]

\* s < t in code point order, as ORDER BY on a text column under the C collation
RECURSIVE StrLess(_, _)
StrLess(s, t) ==
    IF t = <<>> THEN FALSE
    ELSE IF s = <<>> THEN TRUE
    ELSE IF s[1] # t[1] THEN s[1] < t[1]
    ELSE StrLess(Tail(s), Tail(t))

----------------------------------------------------------------------------
(* The universe the requests and the stored rows are drawn from.           *)

Name_a == <<97>>
Name_Ab == <<65, 98>>
Name_ab == <<97, 98>>
Name_A == <<65>>
CrateNames == {Name_a, Name_Ab}

Vers_9 == <<57>>
Vers_10 == <<49, 48>>
\* "10" sorts before "9" as a string
VersionStrings == {Vers_9, Vers_10}

\* Repositories, by id; RepoName gives the name column.  Repository "ra" is
\* named like the crate "a".
Repos == {"ra", "rr"}
RepoName(r) == IF r = "ra" THEN <<97>> ELSE <<114>>
Remotes == {"m1", "m2"}
Domains == {"default", "t2"}
\* every repository, remote and content row of the model is in this domain
HomeDomain == "default"
BasePath_p == <<112>>
BasePath_q == <<113>>
BasePaths == {BasePath_p, BasePath_q}
DomainName(d) == IF d = "default" THEN <<100>> ELSE <<116, 50>>

----------------------------------------------------------------------------
(* models.py: rows.                                                        *)

\* A RustContent row with the column defaults of the model class; the
\* ContentArtifact of the row is folded in as relative_path (NoneSeq: the
\* row has no ContentArtifact).
RustContent(name, vers, relative_path) ==
    [name |-> name, vers |-> vers, cksum |-> "c", yanked |-> FALSE,
     features |-> "{}", features2 |-> "{}", links |-> NoneStr,
     rust_version |-> NoneStr, v |-> 1, dependencies |-> <<>>,
     relative_path |-> relative_path]

Pks == 1..Len(content)

NoDist == [absent |-> TRUE]

RustDistribution(repository, repository_version, remote) ==
    [repository |-> repository, repository_version |-> repository_version,
     remote |-> remote]

\* Repository.latest_version(): the complete version with the highest number
latest_version(r) == <<r, Len(versions[r]) - 1>>

\* RepositoryVersion.content
VersionContent(rv) == versions[rv[1]][rv[2] + 1].content

----------------------------------------------------------------------------
(* Responses.                                                              *)

NotFound(detail) == [status |-> 404, detail |-> detail]
\* an exception no handler catches: the server answers 500
ServerError(exc) == [status |-> 500, detail |-> exc]
ValidationError(detail) == [status |-> 400, detail |-> detail]

----------------------------------------------------------------------------
(* views.py: ApiMixin.                                                     *)

\* ApiMixin.get_distribution: the row with this base_path in the request's
\* domain, or Http404
get_distribution(dom, repo) ==
    IF <<dom, repo>> \in DOMAIN dists /\ dists[<<dom, repo>>] # NoDist
    THEN [found |-> TRUE, distro |-> dists[<<dom, repo>>]]
    ELSE [found |-> FALSE]

\* a variant of get_repository_version that serves a repository's first
\* version instead of its latest
get_repository_version_first(distribution) ==
    LET rep == distribution.repository
        rep_version == distribution.repository_version IN
    IF rep # NoneStr THEN [raise |-> FALSE, rv |-> <<rep, 0>>]
    ELSE IF rep_version # NoneSeq THEN [raise |-> FALSE, rv |-> rep_version]
    ELSE [raise |-> TRUE]

\* ApiMixin.get_repository_version
get_repository_version(distribution) ==
    LET rep == distribution.repository
        rep_version == distribution.repository_version IN
    IF rep # NoneStr THEN [raise |-> FALSE, rv |-> latest_version(rep)]
    ELSE IF rep_version # NoneSeq THEN [raise |-> FALSE, rv |-> rep_version]
    ELSE [raise |-> TRUE]

\* a variant of get_content that returns every row of the table
get_content_all(repository_version) == Pks

\* ApiMixin.get_content: the RustContent rows of the version, by pk
get_content(repository_version) ==
    {pk \in Pks : pk \in VersionContent(repository_version)}

\* ApiMixin.get_rvc: "none" is the (None, None) return, "http404" the
\* Http404 raised by get_repository_version
get_rvc(distribution) ==
    IF distribution.remote # NoneStr /\ distribution.repository = NoneStr
    THEN [kind |-> "none"]
    ELSE LET r == get_repository_version(distribution) IN
         IF r.raise THEN [kind |-> "http404"]
         ELSE [kind |-> "ok", repo_ver |-> r.rv, content |-> get_content(r.rv)]

\* the settings the URLs are built from
CONTENT_PATH_PREFIX == <<47, 112, 117, 108, 112, 47, 99, 111, 110, 116, 101, 110, 116, 47>>
BASE_API_URL == <<104, 47, 112, 117, 108, 112, 47, 99, 97, 114, 103, 111, 47>>
CRATES_IO_API == <<47, 97, 112, 105, 47, 118, 49, 47, 99, 114, 97, 116, 101, 115, 47>>

\* ApiMixin.initial: the URLs IndexRoot answers with (urljoin of a base that
\* ends in "/" with a relative path appends the path)
initial(dom, repo) ==
    IF domainEnabled
    THEN [base_api_url |-> BASE_API_URL \o DomainName(dom) \o Slash \o repo \o Slash,
          base_download_url |->
              BASE_API_URL \o DomainName(dom) \o Slash \o repo \o CRATES_IO_API]
    ELSE [base_api_url |-> BASE_API_URL \o repo \o Slash,
          base_download_url |-> BASE_API_URL \o repo \o CRATES_IO_API]

----------------------------------------------------------------------------
(* views.py: CargoIndexApiViewSet.retrieve.                                *)

\* .order_by("vers") on a set of rows: ascending version string
RECURSIVE order_by_vers(_)
order_by_vers(pks) ==
    IF pks = {} THEN <<>>
    ELSE LET first == CHOOSE p \in pks :
                 \A q \in pks : ~StrLess(content[q].vers, content[p].vers) IN
         <<first>> \o order_by_vers(pks \ {first})

dep_obj(dep) ==
    [name |-> dep.name, req |-> dep.req, features |-> dep.features,
     optional |-> dep.optional, default_features |-> dep.default_features,
     target |-> dep.target, kind |-> dep.kind, registry |-> dep.registry,
     package |-> dep.package]

\* a variant of the truth test that only asks for a value other than None
TruthyTextNotNone(x) == x # NoneStr

\* Python truth of an optional JSON object / optional text column
TruthyJson(x) == x # NoneStr /\ x # "{}"
TruthyText(x) == x # NoneStr /\ x # ""

\* the dict json.dumps serializes for one row: one line of the response
version_obj(row) ==
    LET deps == [i \in 1..Len(row.dependencies) |-> dep_obj(row.dependencies[i])]
        base == [name |-> row.name, vers |-> row.vers, deps |-> deps,
                 cksum |-> row.cksum, features |-> row.features,
                 yanked |-> row.yanked, links |-> row.links, v |-> row.v] IN
    IF TruthyJson(row.features2) /\ TruthyText(row.rust_version)
    THEN [k \in DOMAIN base \cup {"features2", "rust_version"} |->
            IF k = "features2" THEN row.features2
            ELSE IF k = "rust_version" THEN row.rust_version ELSE base[k]]
    ELSE IF TruthyJson(row.features2)
    THEN [k \in DOMAIN base \cup {"features2"} |->
            IF k = "features2" THEN row.features2 ELSE base[k]]
    ELSE IF TruthyText(row.rust_version)
    THEN [k \in DOMAIN base \cup {"rust_version"} |->
            IF k = "rust_version" THEN row.rust_version ELSE base[k]]
    ELSE base

\* a variant that takes the crate name from the first segment of the path
crate_name_of_first(path) == Lower(path[1])

\* a variant that takes the final segment as it is written
crate_name_of_exact(path) == path[Len(path)]

\* PurePath(path).name.lower(): the path is its sequence of segments
crate_name_of(path) == Lower(path[Len(path)])

\* CargoIndexApiViewSet.retrieve(request, path) with self.kwargs["repo"] = repo;
\* the body is the sequence of its lines
index_retrieve(dom, repo, path) ==
    LET d == get_distribution(dom, repo) IN
    IF ~d.found THEN NotFound("No RustDistribution found for base_path")
    ELSE LET rvc == get_rvc(d.distro) IN
    IF rvc.kind = "http404" THEN NotFound("No repository associated with this index")
    ELSE IF rvc.kind = "none" THEN NotFound("No content available")
    ELSE LET crate_name == crate_name_of(path)
             crate_versions ==
                 order_by_vers({pk \in rvc.content : content[pk].name = crate_name}) IN
    IF crate_versions = <<>> THEN NotFound("Crate not found")
    ELSE [status |-> 200,
          lines |-> [i \in 1..Len(crate_versions) |->
                        version_obj(content[crate_versions[i]])]]

----------------------------------------------------------------------------
(* views.py: IndexRoot.retrieve.                                           *)

root_retrieve(dom, repo) ==
    [status |-> 200, dl |-> initial(dom, repo).base_download_url,
     api |-> initial(dom, repo).base_api_url, auth_required |-> FALSE]

----------------------------------------------------------------------------
(* viewsets.py: RustContentViewSet.create.                                 *)

\* the relative path create() stores on the ContentArtifact
crate_relative_path(name, vers) == name \o Slash \o name \o Dash \o vers \o DotCrate

\* the row create() stores: with an artifact, its ContentArtifact carries the
\* conventional relative path; without one no ContentArtifact is made
created_content(name, vers, has_artifact) ==
    RustContent(name, vers,
                IF has_artifact THEN crate_relative_path(name, vers) ELSE NoneSeq)

----------------------------------------------------------------------------
(* views.py: CargoDownloadApiView.                                         *)

\* a variant of get_full_path that never adds the domain segment
get_full_path_no_domain(base_path, dom) == base_path

\* CargoDownloadApiView.get_full_path
get_full_path(base_path, dom) ==
    IF domainEnabled THEN DomainName(dom) \o Slash \o base_path ELSE base_path

\* request.META.get("HTTP_X_FORWARDED_PROTO", request.scheme) and
\* request.META.get("HTTP_X_FORWARDED_HOST", request.get_host())
content_origin(request) ==
    LET scheme == IF request.fwd_proto # NoneSeq THEN request.fwd_proto
                  ELSE request.scheme
        hostname == IF request.fwd_host # NoneSeq THEN request.fwd_host
                    ELSE request.host IN
    scheme \o ColonSlashSlash \o hostname

\* CargoDownloadApiView.redirect_to_content_app
redirect_to_content_app(base_path, relative_path, request) ==
    [status |-> 302,
     location |-> content_origin(request) \o CONTENT_PATH_PREFIX
                  \o get_full_path(base_path, request.dom) \o Slash \o relative_path]

\* the distributions of the domain bound to the repository, by base path
DistributionsOf(dom, repository) ==
    {k \in DOMAIN dists :
        /\ k[1] = dom
        /\ dists[k] # NoDist
        /\ dists[k].repository = repository}

\* CargoDownloadApiView.get(request, name, version)
\* get with the distribution taken as the first of those bound to the repository
download_get_first(request, name, version) ==
    LET repositories == {r \in Repos : RepoName(r) = name /\ request.dom = HomeDomain} IN
    IF repositories = {} THEN NotFound("No RustRepository matches the given query.")
    ELSE LET repo == CHOOSE r \in repositories : TRUE
             distros == DistributionsOf(request.dom, repo) IN
    IF distros = {} THEN NotFound("No RustDistribution matches the given query.")
    ELSE LET distro == CHOOSE k \in distros : TRUE
             found == {pk \in Pks :
                          /\ content[pk].name = name
                          /\ content[pk].vers = version
                          /\ pk \in VersionContent(latest_version(repo))} IN
    IF found = {} THEN NotFound("No RustContent matches the given query.")
    ELSE IF Cardinality(found) > 1 THEN ServerError("MultipleObjectsReturned")
    ELSE LET row == content[CHOOSE pk \in found : TRUE] IN
    IF row.relative_path = NoneSeq THEN ServerError("ContentArtifact.DoesNotExist")
    ELSE redirect_to_content_app(distro[2], row.relative_path, request)

download_get(request, name, version) ==
    LET repositories == {r \in Repos : RepoName(r) = name /\ request.dom = HomeDomain} IN
    IF repositories = {} THEN NotFound("No RustRepository matches the given query.")
    ELSE LET repo == CHOOSE r \in repositories : TRUE
             distros == DistributionsOf(request.dom, repo) IN
    IF distros = {} THEN NotFound("No RustDistribution matches the given query.")
    ELSE IF Cardinality(distros) > 1 THEN ServerError("MultipleObjectsReturned")
    ELSE LET distro == CHOOSE k \in distros : TRUE
             found == {pk \in Pks :
                          /\ content[pk].name = name
                          /\ content[pk].vers = version
                          /\ pk \in VersionContent(latest_version(repo))} IN
    IF found = {} THEN NotFound("No RustContent matches the given query.")
    ELSE IF Cardinality(found) > 1 THEN ServerError("MultipleObjectsReturned")
    ELSE LET row == content[CHOOSE pk \in found : TRUE] IN
    IF row.relative_path = NoneSeq THEN ServerError("ContentArtifact.DoesNotExist")
    ELSE redirect_to_content_app(distro[2], row.relative_path, request)

----------------------------------------------------------------------------
(* urls.py: urlpatterns, and the call of the view they select.             *)

Seg_api == <<97, 112, 105>>
Seg_v1 == <<118, 49>>
Seg_crates == <<99, 114, 97, 116, 101, 115>>
Seg_download == <<100, 111, 119, 110, 108, 111, 97, 100>>
Seg_config_json == <<99, 111, 110, 102, 105, 103, 46, 106, 115, 111, 110>>

\* The first pattern that matches the path below CRATES_IO_URL, in the order
\* of urlpatterns, with the keyword arguments it captures.  (pulp_domain is
\* taken out of the arguments by the platform before the view is called.)
resolve(repo, tail) ==
    IF Len(tail) >= 6 /\ tail[1] = Seg_api /\ tail[2] = Seg_v1 /\ tail[3] = Seg_crates
    THEN [view |-> "cargo-download-api",
          kwargs |-> [repo |-> repo, package |-> tail[4], version |-> tail[5],
                      rest |-> SubSeq(tail, 6, Len(tail))]]
    ELSE IF tail = <<Seg_config_json>>
    THEN [view |-> "index-root", kwargs |-> [repo |-> repo]]
    ELSE [view |-> "cargo-index-api", kwargs |-> [repo |-> repo, path |-> tail]]

\* the parameters each handler declares after request
HandlerParams(view) ==
    IF view = "cargo-download-api" THEN {"name", "version"}
    ELSE IF view = "index-root" THEN {"repo"}
    ELSE {"path"}

\* handler(request, **kwargs): Python raises TypeError unless the keyword
\* arguments are exactly the handler's parameters (none has a default)
dispatch_view(request, repo, tail) ==
    LET m == resolve(repo, tail) IN
    IF DOMAIN m.kwargs # HandlerParams(m.view) THEN ServerError("TypeError")
    ELSE IF m.view = "index-root" THEN root_retrieve(request.dom, m.kwargs.repo)
    ELSE IF m.view = "cargo-index-api"
    THEN index_retrieve(request.dom, repo, m.kwargs.path)
    ELSE download_get(request, m.kwargs.name, m.kwargs.version)

----------------------------------------------------------------------------
(* The stored states the serving handlers are applied to.                  *)

\* the tables create() can have built: rows with pairwise different
\* (name, vers), as unique_together demands
ContentTables(names, artifact_flags) ==
    LET Rows == {created_content(n, v, f) :
                    n \in names, v \in VersionStrings, f \in artifact_flags} IN
    UNION {{t \in [1..k -> Rows] :
               \A i, j \in 1..k :
                   i # j => <<t[i].name, t[i].vers>> # <<t[j].name, t[j].vers>>} :
           k \in 0..MaxContent}

RepositoryVersion(pks, created) == [content |-> pks, created |-> created]

\* version 0 of every repository is empty
Version0 == RepositoryVersion({}, 0)

\* the version lists of a repository over the rows pks: version 0, then up to
\* MaxVersions versions, each differing from the one before it
VersionLists(pks) ==
    UNION {{<<Version0>> \o t : t \in
               {u \in [1..k -> {RepositoryVersion(c, 0) : c \in SUBSET pks}] :
                   \A i \in 1..k :
                       u[i].content # (IF i = 1 THEN {} ELSE u[i - 1].content)}} :
           k \in 0..MaxVersions}

\* the distributions a base path of the home domain can hold
HomeDistributions(repos, remotes) ==
    {NoDist}
    \cup {RustDistribution(r, NoneSeq, m) : r \in repos \cup {NoneStr}, m \in remotes}
    \cup {RustDistribution(NoneStr, <<r, n>>, m) :
             r \in repos \cap {"ra"}, n \in 0..MaxVersions, m \in remotes}

\* a fixed version a distribution is bound to exists
DistsWellFormed ==
    \A k \in DOMAIN dists :
        (dists[k] # NoDist /\ dists[k].repository_version # NoneSeq)
            => dists[k].repository_version[2] < Len(versions[dists[k].repository_version[1]])

PlainRequest(dom) ==
    [dom |-> dom, scheme |-> <<104, 116, 116, 112>>, host |-> <<104>>,
     fwd_proto |-> NoneSeq, fwd_host |-> NoneSeq]

\* requests with and without the X-Forwarded-Proto / X-Forwarded-Host headers
ForwardedRequests ==
    {[dom |-> HomeDomain, scheme |-> <<104, 116, 116, 112>>, host |-> <<104>>,
      fwd_proto |-> fp, fwd_host |-> fh] :
        fp \in {NoneSeq, <<104, 116, 116, 112, 115>>}, fh \in {NoneSeq, <<120>>}}

IndexPaths ==
    {<<Name_a>>, <<<<49>>, Name_A>>, <<<<50>>, Name_ab>>, <<<<51>>, <<97>>, Name_Ab>>}

UrlTails ==
    {<<Seg_config_json>>, <<<<49>>, Name_a>>,
     <<Seg_api, Seg_v1, Seg_crates, Name_a, Vers_9, Seg_download>>}

NoResponse == [op |-> "none"]

\* a request that has arrived and is not answered yet
Received(request) == [op |-> "none", request |-> request]

IndexGets ==
    {[view |-> "index", dom |-> dom, repo |-> repo, path |-> path] :
        dom \in Domains, repo \in BasePaths, path \in IndexPaths}

RootGets ==
    {[view |-> "root", dom |-> dom, repo |-> repo] :
        dom \in Domains, repo \in BasePaths}

UrlGets ==
    {[view |-> "url", dom |-> dom, repo |-> repo, tail |-> tail] :
        dom \in Domains, repo \in BasePaths, tail \in UrlTails}

DownloadGets ==
    {[view |-> "download", request |-> request, name |-> name, version |-> version] :
        request \in ForwardedRequests \cup {PlainRequest("t2")},
        name \in CrateNames, version \in VersionStrings}

NoJobs ==
    /\ repoRemote = [r \in Repos |-> NoneStr]
    /\ remoteArtifacts = {}
    /\ clock = 0
    /\ tasks = <<>>

----------------------------------------------------------------------------
(* Spec: the index and config.json handlers, and the URL routing, applied  *)
(* to the stored states.                                                   *)

Init ==
    /\ domainEnabled \in BOOLEAN
    /\ content \in ContentTables(CrateNames, {TRUE})
    /\ versions \in {[r \in Repos |-> IF r = "ra" THEN vl ELSE <<Version0>>] :
                        vl \in VersionLists(Pks)}
    /\ dists \in {[k \in Domains \X BasePaths |->
                      IF k = <<HomeDomain, BasePath_p>> THEN x
                      ELSE IF k = <<"t2", BasePath_p>> THEN y ELSE NoDist] :
                    x \in HomeDistributions(Repos, {NoneStr, "m1"}),
                    y \in {NoDist, RustDistribution(NoneStr, NoneSeq, NoneStr)}}
    /\ DistsWellFormed
    /\ NoJobs
    /\ resp \in {Received(q) : q \in IndexGets \cup RootGets \cup UrlGets}

Stored == <<domainEnabled, content, versions, repoRemote, dists, remoteArtifacts,
            clock, tasks>>

\* GET of an index path, answered by CargoIndexApiViewSet.retrieve
IndexRequest ==
    /\ resp.op = "none"
    /\ resp.request.view = "index"
    /\ LET q == resp.request IN
       resp' = [op |-> "index", dom |-> q.dom, repo |-> q.repo, path |-> q.path,
                response |-> index_retrieve(q.dom, q.repo, q.path)]
    /\ UNCHANGED Stored

\* GET of config.json, answered by IndexRoot.retrieve
RootRequest ==
    /\ resp.op = "none"
    /\ resp.request.view = "root"
    /\ LET q == resp.request IN
       resp' = [op |-> "root", dom |-> q.dom, repo |-> q.repo,
                response |-> root_retrieve(q.dom, q.repo)]
    /\ UNCHANGED Stored

\* GET of a URL below pulp/cargo/<repo>/, answered through urlpatterns
UrlRequest ==
    /\ resp.op = "none"
    /\ resp.request.view = "url"
    /\ LET q == resp.request IN
       resp' = [op |-> "url", dom |-> q.dom, repo |-> q.repo, tail |-> q.tail,
                response |-> dispatch_view(PlainRequest(q.dom), q.repo, q.tail)]
    /\ UNCHANGED Stored

Next == IndexRequest \/ RootRequest \/ UrlRequest

Spec == Init /\ [][Next]_vars

----------------------------------------------------------------------------
(* SpecDownload: the download handler applied to the stored states.        *)

InitDownload ==
    /\ domainEnabled \in BOOLEAN
    /\ content \in ContentTables({Name_a}, BOOLEAN)
    /\ versions \in {[r \in Repos |-> IF r = "ra" THEN vl ELSE <<Version0>>] :
                        vl \in VersionLists(Pks)}
    /\ dists \in {[k \in Domains \X BasePaths |->
                      IF k = <<HomeDomain, BasePath_p>> THEN x
                      ELSE IF k = <<HomeDomain, BasePath_q>> THEN y ELSE NoDist] :
                    x \in HomeDistributions(Repos, {NoneStr}),
                    y \in {NoDist, RustDistribution("ra", NoneSeq, NoneStr)}}
    /\ DistsWellFormed
    /\ NoJobs
    /\ resp \in {Received(q) : q \in DownloadGets \cup UrlGets}

\* CargoDownloadApiView.get called with a crate name and a version
DownloadRequest ==
    /\ resp.op = "none"
    /\ resp.request.view = "download"
    /\ LET q == resp.request IN
       resp' = [op |-> "download", request |-> q.request, name |-> q.name,
                version |-> q.version,
                response |-> download_get(q.request, q.name, q.version)]
    /\ UNCHANGED Stored

NextDownload == DownloadRequest \/ UrlRequest

SpecDownload == InitDownload /\ [][NextDownload]_vars

----------------------------------------------------------------------------
(* Claims about the serving handlers.                                      *)

\* the distribution a request's base path names, when there is one
RequestedDistribution == get_distribution(resp.dom, resp.repo)

\* the rows of a content set stored under exactly this crate name
StoredVersions(pks, name) == {pk \in pks : content[pk].name = name}

\* the lines name exactly these rows, once each, in ascending version order
LinesAre(lines, pks) ==
    /\ Len(lines) = Cardinality(pks)
    /\ {<<lines[i].name, lines[i].vers>> : i \in 1..Len(lines)}
           = {<<content[pk].name, content[pk].vers>> : pk \in pks}
    /\ \A i, j \in 1..Len(lines) : i < j => StrLess(lines[i].vers, lines[j].vers)

\* C1: for every content set and every crate name with N >= 1 stored
\* versions in it, the index response for that crate has exactly N lines,
\* one per stored version, in ascending order of the raw version string.
\* The request names the crate as it is stored (the last path segment).
C1_IndexHasOneLinePerVersion ==
    (resp.op = "index" /\ RequestedDistribution.found
        /\ get_rvc(RequestedDistribution.distro).kind = "ok")
    => LET pks == StoredVersions(get_rvc(RequestedDistribution.distro).content,
                                 resp.path[Len(resp.path)]) IN
       pks # {} => /\ resp.response.status = 200
                   /\ LinesAre(resp.response.lines, pks)

\* C2: a GET of api/v1/crates/<name>/<version>/download under a
\* distribution's base path is answered with a redirect whenever that
\* (name, version) is in the latest version of the distribution's
\* repository, and with not-found whenever it is not.
C2_DownloadRedirectsIffStored ==
    (resp.op = "url" /\ resolve(resp.repo, resp.tail).view = "cargo-download-api"
        /\ RequestedDistribution.found
        /\ RequestedDistribution.distro.repository # NoneStr)
    => LET latest == VersionContent(latest_version(RequestedDistribution.distro.repository))
           stored == \E pk \in latest : /\ content[pk].name = resp.tail[4]
                                        /\ content[pk].vers = resp.tail[5] IN
       resp.response.status = (IF stored THEN 302 ELSE 404)

\* the base path of the distribution that serves the repository named name
BasePathServing(dom, name) ==
    (CHOOSE k \in DOMAIN dists :
        /\ k[1] = dom
        /\ dists[k] # NoDist
        /\ dists[k].repository # NoneStr
        /\ RepoName(dists[k].repository) = name)[2]

\* scheme://host of the request, the forwarded values taking precedence
RequestOrigin(request) ==
    (IF request.fwd_proto = NoneSeq THEN request.scheme ELSE request.fwd_proto)
    \o ColonSlashSlash
    \o (IF request.fwd_host = NoneSeq THEN request.host ELSE request.fwd_host)

\* C3 as stated: every download redirect targets exactly base-content-url +
\* distribution-base-path + "/" + name + "/" + name + "-" + version +
\* ".crate", in every configuration of the handler.
C3_RedirectTargetAsStated ==
    (resp.op = "download" /\ resp.response.status = 302)
    => resp.response.location
         = RequestOrigin(resp.request) \o CONTENT_PATH_PREFIX
           \o BasePathServing(resp.request.dom, resp.name) \o Slash
           \o resp.name \o Slash \o resp.name \o Dash \o resp.version \o DotCrate

\* C3 amended: the target is as stated when DOMAIN_ENABLED is off; when it
\* is on, the domain name and "/" stand before the distribution base path.
C3_RedirectTarget ==
    (resp.op = "download" /\ resp.response.status = 302)
    => resp.response.location
         = RequestOrigin(resp.request) \o CONTENT_PATH_PREFIX
           \o (IF domainEnabled THEN DomainName(resp.request.dom) \o Slash ELSE <<>>)
           \o BasePathServing(resp.request.dom, resp.name) \o Slash
           \o resp.name \o Slash \o resp.name \o Dash \o resp.version \o DotCrate

\* C3 witness: a redirect was produced with DOMAIN_ENABLED on, for a request
\* that carries a forwarded host
C3_Witness ==
    /\ resp.op = "download"
    /\ resp.response.status = 302
    /\ domainEnabled
    /\ resp.request.fwd_host # NoneSeq

\* C4: every request whose base path matches no distribution in the current
\* tenant scope is answered not-found, for config.json, the per-crate index
\* and the download endpoint.
C4_UnknownBasePathNotFound ==
    (resp.op \in {"index", "root", "url"} /\ ~RequestedDistribution.found)
    => resp.response.status = 404

\* the index response is the one the content of version rv gives
ServedFrom(rv) ==
    LET pks == StoredVersions(VersionContent(rv), Lower(resp.path[Len(resp.path)])) IN
    IF pks = {} THEN resp.response.status = 404
    ELSE /\ resp.response.status = 200
         /\ LinesAre(resp.response.lines, pks)

\* C5: for every distribution, with or without a remote, an index request
\* is served from the latest version of the bound repository, or from
\* exactly the bound fixed version; with neither bound and no remote it
\* fails with not-found "No repository associated".
C5_EffectiveRepositoryVersion ==
    (resp.op = "index" /\ RequestedDistribution.found)
    => LET d == RequestedDistribution.distro IN
       /\ d.repository # NoneStr => ServedFrom(latest_version(d.repository))
       /\ (d.repository = NoneStr /\ d.repository_version # NoneSeq)
              => ServedFrom(d.repository_version)
       /\ (d.repository = NoneStr /\ d.repository_version = NoneSeq
              /\ d.remote = NoneStr)
              => resp.response = NotFound("No repository associated with this index")

----------------------------------------------------------------------------
(* serializers.py: RepositoryAddCachedContentSerializer.                   *)

\* what a request body can say about the remote: the key is absent, it is
\* null, or it names a remote
Absent == "absent"
Null == "null"

\* a variant of validate that accepts a request with no remote resolvable
add_cached_content_validate_lax(request_remote, repository) == [valid |-> TRUE]

\* RepositoryAddCachedContentSerializer.is_valid: the remote field rejects
\* null (it is not allow_null); validate() wants a remote from the request
\* or from the repository
add_cached_content_validate(request_remote, repository) ==
    IF request_remote = Null
    THEN [valid |-> FALSE, detail |-> "This field may not be null."]
    ELSE LET remote == IF request_remote # Absent THEN request_remote
                       ELSE repoRemote[repository] IN
         IF remote = NoneStr
         THEN [valid |-> FALSE,
               detail |-> "This field is required since a remote is not set on the repository."]
         ELSE [valid |-> TRUE]

----------------------------------------------------------------------------
(* viewsets.py: the jobs RustRepositoryViewSet dispatches.                 *)

\* dispatch(func, args, kwargs, exclusive_resources, shared_resources) of
\* the tasking system: the job it records, waiting to be run
dispatch(func, args, kwargs, exclusive_resources, shared_resources) ==
    [name |-> func, args |-> args, kwargs |-> kwargs,
     exclusive_resources |-> exclusive_resources,
     shared_resources |-> shared_resources, state |-> "waiting"]

\* RustRepositoryViewSet.sync: dispatch(tasks.synchronize, [repository,
\* remote], kwargs={...}).  The list is the second positional argument of
\* dispatch, the job's positional arguments; the call passes neither
\* exclusive_resources nor shared_resources.
sync_dispatch(repository, remote, mirror) ==
    dispatch("synchronize", <<repository, remote>>,
             [remote_pk |-> remote, repository_pk |-> repository, mirror |-> mirror],
             {}, {})

\* RustRepositoryViewSet.add_cached_content: the dispatch call
add_cached_content_dispatch(repository, remote) ==
    dispatch("add_cached_content_to_repository", <<>>,
             [remote_pk |-> remote, repository_pk |-> repository],
             {repository}, {remote})

\* RustRepositoryViewSet.add_cached_content, up to the response
add_cached_content(repository, request_remote) ==
    LET checked == add_cached_content_validate(request_remote, repository) IN
    IF ~checked.valid THEN [response |-> ValidationError(checked.detail), jobs |-> <<>>]
    ELSE LET remote == IF request_remote # Absent THEN request_remote
                       ELSE repoRemote[repository] IN
         IF remote = NoneStr
         THEN [response |-> ServerError("AttributeError"), jobs |-> <<>>]
         ELSE [response |-> [status |-> 202, task |-> Len(tasks) + 1],
               jobs |-> <<add_cached_content_dispatch(repository, remote)>>]

\* RustRepositoryViewSet.sync, up to the response; RepositorySyncURLSerializer
\* is given no repository, so it wants the remote in the request
sync(repository, request_remote, mirror) ==
    IF request_remote \in {Absent, Null}
    THEN [response |-> ValidationError("remote"), jobs |-> <<>>]
    ELSE [response |-> [status |-> 202, task |-> Len(tasks) + 1],
          jobs |-> <<sync_dispatch(repository, request_remote, mirror)>>]

----------------------------------------------------------------------------
(* The tasking system: it starts a waiting job when the resources the job  *)
(* names are free, exclusive against every use and shared against          *)
(* exclusive use, in dispatch order.                                       *)

Conflicts(t, u) ==
    \/ t.exclusive_resources \cap (u.exclusive_resources \cup u.shared_resources) # {}
    \/ t.shared_resources \cap u.exclusive_resources # {}

CanStart(i) ==
    /\ tasks[i].state = "waiting"
    /\ \A j \in 1..Len(tasks) :
          (j # i /\ (tasks[j].state = "running"
                        \/ (j < i /\ tasks[j].state = "waiting")))
              => ~Conflicts(tasks[i], tasks[j])

SetState(i, state) == [tasks EXCEPT ![i].state = state]

----------------------------------------------------------------------------
(* The jobs, and the content app's pull-through fetch.                     *)

\* what each remote's upstream index lists
Upstream(remote) ==
    IF remote = "m1" THEN {[name |-> Name_a, vers |-> Vers_9, cksum |-> "c"]}
    ELSE {[name |-> Name_a, vers |-> Vers_9, cksum |-> "c2"],
          [name |-> Name_Ab, vers |-> Vers_10, cksum |-> "c"]}

\* the pk of the row with this (name, vers), 0 when there is none
PkOf(table, name, vers) ==
    IF \E i \in 1..Len(table) : table[i].name = name /\ table[i].vers = vers
    THEN CHOOSE i \in 1..Len(table) : table[i].name = name /\ table[i].vers = vers
    ELSE 0

\* upsert of the entries into the table, keyed by (name, vers): an equal
\* checksum writes nothing, a different one updates the row in place, an
\* unknown key adds a row with its archive at the conventional path
RECURSIVE Upsert(_, _)
Upsert(table, entries) ==
    IF entries = {} THEN table
    ELSE LET e == CHOOSE x \in entries :
                    \A y \in entries : ~StrLess(y.name \o y.vers, x.name \o x.vers)
             pk == PkOf(table, e.name, e.vers)
             next == IF pk = 0
                     THEN Append(table, [created_content(e.name, e.vers, TRUE)
                                            EXCEPT !.cksum = e.cksum])
                     ELSE IF table[pk].cksum = e.cksum THEN table
                     ELSE [table EXCEPT ![pk].cksum = e.cksum] IN
         Upsert(next, entries \ {e})

LatestRow(r) == versions[r][Len(versions[r])]

\* the content fetched from the remote that postdates the repository's
\* latest version
CachedSince(r, remote) ==
    {ra.pk : ra \in {x \in remoteArtifacts :
                        x.remote = remote /\ x.created > LatestRow(r).created}}

\* add_cached_content_to_repository: the content of the version it creates
promoted_content(r, remote) == LatestRow(r).content \cup CachedSince(r, remote)

\* synchronize: the content of the version it creates, over the table after
\* the upsert
synchronized_content(r, remote, mirror, table) ==
    LET synced == {PkOf(table, e.name, e.vers) : e \in Upstream(remote)} IN
    IF mirror THEN synced ELSE LatestRow(r).content \cup synced

\* a variant of a job's failure that leaves the version it was building
failed_job_versions_partial(i) ==
    IF tasks[i].name = "general_update" THEN versions
    ELSE [versions EXCEPT ![tasks[i].kwargs.repository_pk] =
        Append(@, RepositoryVersion(LatestRow(tasks[i].kwargs.repository_pk).content, clock))]

\* what a failed job leaves of the repository's versions: nothing new
failed_job_versions(i) == versions

----------------------------------------------------------------------------
(* SpecTasks: the requests that dispatch jobs, the jobs, and pull-through  *)
(* fetches through a distribution.                                         *)

InitTasks ==
    /\ domainEnabled = FALSE
    /\ content = <<>>
    /\ versions = [r \in Repos |-> <<Version0>>]
    /\ repoRemote = [r \in Repos |-> IF r = "ra" THEN "m1" ELSE NoneStr]
    /\ dists = [k \in Domains \X BasePaths |->
                   IF k = <<HomeDomain, BasePath_p>>
                   THEN RustDistribution("ra", NoneSeq, "m1") ELSE NoDist]
    /\ remoteArtifacts = {}
    /\ clock = 1
    /\ tasks = <<>>
    /\ resp = NoResponse

\* POST add_cached_content/ on a repository
AddCachedContentRequest ==
    \E repository \in Repos, request_remote \in {Absent, Null, "m2"} :
        LET r == add_cached_content(repository, request_remote) IN
        /\ Len(tasks) + Len(r.jobs) <= MaxTasks
        /\ tasks' = tasks \o r.jobs
        /\ resp' = [op |-> "add_cached_content", repository |-> repository,
                    remote |-> request_remote, response |-> r.response]
        /\ UNCHANGED <<domainEnabled, content, versions, repoRemote, dists,
                       remoteArtifacts, clock>>

\* POST sync/ on a repository
SyncRequest ==
    \E repository \in Repos, request_remote \in {Absent, "m1"},
       mirror \in {FALSE} :
        LET r == sync(repository, request_remote, mirror) IN
        /\ Len(tasks) + Len(r.jobs) <= MaxTasks
        /\ tasks' = tasks \o r.jobs
        /\ resp' = [op |-> "sync", repository |-> repository,
                    remote |-> request_remote, response |-> r.response]
        /\ UNCHANGED <<domainEnabled, content, versions, repoRemote, dists,
                       remoteArtifacts, clock>>

\* a worker takes a waiting job whose resources are free
TaskStart ==
    \E i \in 1..Len(tasks) :
        /\ CanStart(i)
        /\ tasks' = SetState(i, "running")
        /\ UNCHANGED <<domainEnabled, content, versions, repoRemote, dists,
                       remoteArtifacts, clock, resp>>

\* the scheduler cancels a job before it runs
TaskCancel ==
    \E i \in 1..Len(tasks) :
        /\ tasks[i].state = "waiting"
        /\ tasks' = SetState(i, "canceled")
        /\ UNCHANGED <<domainEnabled, content, versions, repoRemote, dists,
                       remoteArtifacts, clock, resp>>

\* a running job raises
TaskFail ==
    \E i \in 1..Len(tasks) :
        /\ tasks[i].state = "running"
        /\ tasks' = SetState(i, "failed")
        /\ versions' = failed_job_versions(i)
        /\ UNCHANGED <<domainEnabled, content, repoRemote, dists,
                       remoteArtifacts, clock, resp>>

\* a running promotion commits its version
PromotionFinish ==
    \E i \in 1..Len(tasks) :
        LET r == tasks[i].kwargs.repository_pk IN
        /\ tasks[i].state = "running"
        /\ tasks[i].name = "add_cached_content_to_repository"
        /\ Len(versions[r]) <= MaxNewVersions
        /\ clock < MaxClock
        /\ versions' = [versions EXCEPT ![r] =
               Append(@, RepositoryVersion(promoted_content(r, tasks[i].kwargs.remote_pk),
                                           clock))]
        /\ clock' = clock + 1
        /\ tasks' = SetState(i, "completed")
        /\ UNCHANGED <<domainEnabled, content, repoRemote, dists, remoteArtifacts, resp>>

\* a running synchronization commits the rows and its version
SyncFinish ==
    \E i \in 1..Len(tasks) :
        LET r == tasks[i].kwargs.repository_pk
            table == Upsert(content, Upstream(tasks[i].kwargs.remote_pk)) IN
        /\ tasks[i].state = "running"
        /\ tasks[i].name = "synchronize"
        /\ Len(table) <= MaxContent
        /\ Len(versions[r]) <= MaxNewVersions
        /\ clock < MaxClock
        /\ content' = table
        /\ versions' = [versions EXCEPT ![r] =
               Append(@, RepositoryVersion(
                   synchronized_content(r, tasks[i].kwargs.remote_pk,
                                        tasks[i].kwargs.mirror, table), clock))]
        /\ clock' = clock + 1
        /\ tasks' = SetState(i, "completed")
        /\ UNCHANGED <<domainEnabled, repoRemote, dists, remoteArtifacts, resp>>

\* a crate archive is fetched through a distribution that has a remote and
\* does not hold it in its repository: the content app streams it from the
\* remote and records the row and its RemoteArtifact
PullThroughFetch ==
    \E k \in DOMAIN dists : \E remote \in Remotes : \E e \in Upstream(remote) :
        LET table == IF PkOf(content, e.name, e.vers) = 0
                     THEN Append(content, [created_content(e.name, e.vers, TRUE)
                                              EXCEPT !.cksum = e.cksum])
                     ELSE content
            pk == PkOf(table, e.name, e.vers) IN
        /\ dists[k] # NoDist
        /\ dists[k].remote = remote
        /\ dists[k].repository # NoneStr
              => pk \notin LatestRow(dists[k].repository).content
        /\ ~\E ra \in remoteArtifacts : ra.remote = remote /\ ra.pk = pk
        /\ Len(table) <= MaxContent
        /\ clock < MaxClock
        /\ content' = table
        /\ remoteArtifacts' = remoteArtifacts
               \cup {[remote |-> remote, pk |-> pk, created |-> clock]}
        /\ clock' = clock + 1
        /\ UNCHANGED <<domainEnabled, versions, repoRemote, dists, tasks, resp>>

\* the job a PATCH of a distribution dispatches: the platform's general
\* update of the record, holding the distributions exclusively
partial_update_dispatch(distribution, data) ==
    dispatch("general_update", <<distribution>>, [data |-> data, partial |-> TRUE],
             {"distributions"}, {})

\* partial_update(distribution, {"remote": ...}): answered with the task of
\* the dispatched job; the distribution is as it was until the job has run
partial_update(distribution, data) ==
    [response |-> [status |-> 202, task |-> Len(tasks) + 1],
     jobs |-> <<partial_update_dispatch(distribution, data)>>]

DistributionPartialUpdate ==
    \E k \in DOMAIN dists, remote \in {NoneStr} :
        LET r == partial_update(k, [remote |-> remote]) IN
        /\ dists[k] # NoDist
        /\ Len(tasks) + Len(r.jobs) <= MaxTasks
        /\ tasks' = tasks \o r.jobs
        /\ resp' = [op |-> "partial_update", distribution |-> k,
                    remote |-> remote, response |-> r.response]
        /\ UNCHANGED <<domainEnabled, content, versions, repoRemote, dists,
                       remoteArtifacts, clock>>

\* the update job runs to its end: the distribution takes the remote of the
\* request
GeneralUpdateFinish ==
    \E i \in 1..Len(tasks) :
        /\ tasks[i].state = "running"
        /\ tasks[i].name = "general_update"
        /\ dists' = [dists EXCEPT ![tasks[i].args[1]].remote = tasks[i].kwargs.data.remote]
        /\ tasks' = SetState(i, "completed")
        /\ UNCHANGED <<domainEnabled, content, versions, repoRemote,
                       remoteArtifacts, clock, resp>>

NextTasks ==
    \/ AddCachedContentRequest
    \/ SyncRequest
    \/ TaskStart
    \/ TaskCancel
    \/ TaskFail
    \/ PromotionFinish
    \/ SyncFinish
    \/ PullThroughFetch
    \/ DistributionPartialUpdate
    \/ GeneralUpdateFinish

SpecTasks == InitTasks /\ [][NextTasks]_vars

----------------------------------------------------------------------------
(* Claims about the jobs.                                                  *)

IsPromotion(t) == t.name = "add_cached_content_to_repository"
IsSync(t) == t.name = "synchronize"

\* job i goes from running to this state in the step
Ends(i, state) ==
    /\ i \in 1..Len(tasks)
    /\ tasks[i].state = "running"
    /\ tasks'[i].state = state

\* the request named no remote and the repository has none
NoRemoteResolvable(r) ==
    /\ r.op = "add_cached_content"
    /\ r.remote \in {Absent, Null}
    /\ repoRemote[r.repository] = NoneStr

\* C6: an add_cached_content request for which no remote is resolvable
\* (none in the request, none on the repository) ends in a validation error
\* and dispatches no job; and every promotion job that is dispatched carries
\* a remote.
C6_NoRemoteNoJob ==
    /\ [][(resp' # resp /\ NoRemoteResolvable(resp'))
            => (resp'.response.status = 400 /\ tasks' = tasks)]_vars
    /\ [](\A i \in 1..Len(tasks) :
            IsPromotion(tasks[i])
                => /\ tasks[i].kwargs.remote_pk \in Remotes
                   /\ tasks[i].shared_resources = {tasks[i].kwargs.remote_pk})

\* C6 witness: such a request was answered with the validation error, and a
\* request with a remote had its job dispatched before
C6_Witness ==
    /\ NoRemoteResolvable(resp)
    /\ resp.response.status = 400
    /\ \E i \in 1..Len(tasks) : IsPromotion(tasks[i])

\* C7: a synchronization job is dispatched holding an exclusive lock on its
\* repository and only a shared lock on its remote, and two synchronizations
\* of one repository never run at the same time.
C7_SyncLocks ==
    /\ \A i \in 1..Len(tasks) :
          IsSync(tasks[i])
              => /\ tasks[i].exclusive_resources = {tasks[i].kwargs.repository_pk}
                 /\ tasks[i].shared_resources = {tasks[i].kwargs.remote_pk}
    /\ \A i, j \in 1..Len(tasks) :
          (i # j /\ IsSync(tasks[i]) /\ IsSync(tasks[j])
              /\ tasks[i].state = "running" /\ tasks[j].state = "running")
              => tasks[i].kwargs.repository_pk # tasks[j].kwargs.repository_pk

\* C8: a promotion never runs at the same time as a synchronization or
\* another promotion of the same repository.
C8_PromotionRunsAlone ==
    \A i, j \in 1..Len(tasks) :
        (i # j /\ IsPromotion(tasks[i])
            /\ (IsPromotion(tasks[j]) \/ IsSync(tasks[j]))
            /\ tasks[i].state = "running" /\ tasks[j].state = "running")
            => tasks[i].kwargs.repository_pk # tasks[j].kwargs.repository_pk

\* the content a distribution resolves to once its remote is taken away
ServedWithoutRemote(k) == get_rvc([dists[k] EXCEPT !.remote = NoneStr])

\* C9: a pull-through fetch leaves every repository's versions as they
\* are; a promotion that succeeds adds exactly one version to its
\* repository, numbered one above the latest, whose content is the latest
\* version's content united with the content cached from the remote since
\* that version; and that content is then what a distribution of the
\* repository resolves to without a remote.
C9_PromotionAddsOneVersion ==
    /\ [][remoteArtifacts' # remoteArtifacts => versions' = versions]_vars
    /\ [][\A i \in 1..Len(tasks) :
            (Ends(i, "completed") /\ IsPromotion(tasks[i]))
            => LET r == tasks[i].kwargs.repository_pk
                   promoted == LatestRow(r).content
                                   \cup CachedSince(r, tasks[i].kwargs.remote_pk) IN
               /\ Len(versions'[r]) = Len(versions[r]) + 1
               /\ SubSeq(versions'[r], 1, Len(versions[r])) = versions[r]
               /\ latest_version(r)' = <<r, latest_version(r)[2] + 1>>
               /\ VersionContent(latest_version(r))' = promoted
               /\ \A q \in Repos \ {r} : versions'[q] = versions[q]
               /\ \A k \in DOMAIN dists :
                     (dists[k] # NoDist /\ dists[k].repository = r)
                         => /\ ServedWithoutRemote(k)'.kind = "ok"
                            /\ ServedWithoutRemote(k)'.content = promoted]_vars

\* C9 witness: content fetched through the distribution was promoted into
\* version 1 of a repository that no synchronization touched, and the
\* distribution has no remote any more
C9_Witness ==
    /\ \E i \in 1..Len(tasks) : IsPromotion(tasks[i]) /\ tasks[i].state = "completed"
    /\ ~\E i \in 1..Len(tasks) : IsSync(tasks[i])
    /\ latest_version("ra") = <<"ra", 1>>
    /\ VersionContent(latest_version("ra")) # {}
    /\ dists[<<HomeDomain, BasePath_p>>].remote = NoneStr

\* C10: versions are only ever added whole: a step leaves the versions of a
\* repository as they are or appends the one version of a job that
\* completes; a job that fails adds none, and every distribution resolves
\* to the same version with the same content as before.
C10_VersionsCommitWhole ==
    /\ [][\A r \in Repos :
            \/ versions'[r] = versions[r]
            \/ /\ \E i \in 1..Len(tasks) :
                     Ends(i, "completed") /\ tasks[i].kwargs.repository_pk = r
               /\ Len(versions'[r]) = Len(versions[r]) + 1
               /\ SubSeq(versions'[r], 1, Len(versions[r])) = versions[r]]_vars
    /\ [][(\E i \in 1..Len(tasks) : Ends(i, "failed"))
            => /\ versions' = versions
               /\ \A k \in DOMAIN dists :
                     dists[k] # NoDist => get_rvc(dists[k])' = get_rvc(dists[k])]_vars

\* C10 witness: a job failed on a repository on which an earlier job had
\* completed and added version 1
C10_Witness ==
    \E i, j \in 1..Len(tasks) :
        /\ tasks[i].state = "failed"
        /\ tasks[j].state = "completed"
        /\ tasks[i].name # "general_update"
        /\ tasks[j].name # "general_update"
        /\ tasks[j].kwargs.repository_pk = tasks[i].kwargs.repository_pk
        /\ latest_version(tasks[i].kwargs.repository_pk)[2] = 1

----------------------------------------------------------------------------
(* serializers.py, viewsets.py: the content store.                         *)

\* a variant of the store without the uniqueness constraint
unique_together_off(table, name, vers) == TRUE

\* models.py unique_together: no stored row has this (name, vers) in the
\* domain (every row of the model is in one domain)
unique_together(table, name, vers) ==
    \A i \in 1..Len(table) : ~(table[i].name = name /\ table[i].vers = vers)

\* a RustDependency row; id is its primary key within the content row, given
\* out in the order of creation
RustDependency(id, name, kind) ==
    [id |-> id, name |-> name, req |-> "^1", features |-> <<>>,
     optional |-> FALSE, default_features |-> TRUE, target |-> NoneStr,
     kind |-> kind, registry |-> NoneStr, package |-> NoneStr]

\* the dependency lists a create request declares, by (name, kind)
DeclaredDependencies ==
    {<<>>, <<[name |-> "n", kind |-> "normal"], [name |-> "b", kind |-> "build"]>>}

\* RustContentSerializer.create: the content row, then one RustDependency
\* per declared dependency, in the order of the request
serializer_create(name, vers, features2, dependencies_data, has_artifact) ==
    [created_content(name, vers, has_artifact) EXCEPT
        !.features2 = features2,
        !.dependencies = [i \in 1..Len(dependencies_data) |->
                             RustDependency(i, dependencies_data[i].name,
                                            dependencies_data[i].kind)]]

\* RustContentViewSet.create inside transaction.atomic: a row that breaks
\* unique_together raises IntegrityError and the transaction leaves nothing
content_create(table, name, vers, features2, dependencies_data, has_artifact) ==
    IF unique_together(table, name, vers)
    THEN [status |-> 201,
          table |-> Append(table, serializer_create(name, vers, features2,
                                                    dependencies_data, has_artifact))]
    ELSE [status |-> 500, detail |-> "IntegrityError", table |-> table]

\* a variant of update that replaces the dependencies even when the request
\* does not carry them
serializer_update_replacing(row, validated_data) ==
    [k \in DOMAIN row |->
        IF k = "dependencies" THEN <<>>
        ELSE IF k \in DOMAIN validated_data THEN validated_data[k] ELSE row[k]]

\* RustContentSerializer.update(instance, validated_data) for a request that
\* carries only yanked: the given attributes are set, and the dependencies
\* are replaced only when the request has the key
serializer_update(row, validated_data) ==
    [k \in DOMAIN row |->
        IF k = "dependencies"
        THEN IF "dependencies" \in DOMAIN validated_data
             THEN [i \in 1..Len(validated_data.dependencies) |->
                      RustDependency(i, validated_data.dependencies[i].name,
                                     validated_data.dependencies[i].kind)]
             ELSE row.dependencies
        ELSE IF k \in DOMAIN validated_data THEN validated_data[k] ELSE row[k]]

----------------------------------------------------------------------------
(* SpecContent: creating and updating content rows, adding them to a       *)
(* repository, and the index served from it.                               *)

\* the values the optional columns of a stored row can hold: null, empty,
\* and set
Features2Values == {NoneStr, "{}", "{f}"}
RustVersionValues == {NoneStr, "", "1.70"}

\* the rows (a, 9) a synchronization can have stored
StoredRows ==
    {[created_content(Name_a, Vers_9, TRUE) EXCEPT
         !.features2 = f2, !.rust_version = rv] :
        f2 \in Features2Values, rv \in RustVersionValues}

InitContent ==
    /\ domainEnabled = FALSE
    /\ content \in {<<row>> : row \in StoredRows}
    /\ versions = [r \in Repos |->
                      IF r = "ra" THEN <<Version0, RepositoryVersion({1}, 0)>>
                      ELSE <<Version0>>]
    /\ dists = [k \in Domains \X BasePaths |->
                   IF k = <<HomeDomain, BasePath_p>>
                   THEN RustDistribution("ra", NoneSeq, NoneStr) ELSE NoDist]
    /\ NoJobs
    /\ resp = NoResponse

\* POST content/rust/packages/
ContentCreate ==
    \E name \in CrateNames, vers \in VersionStrings, features2 \in {"{}"},
       dependencies_data \in DeclaredDependencies, has_artifact \in {TRUE} :
        LET r == content_create(content, name, vers, features2, dependencies_data,
                                has_artifact) IN
        /\ Len(r.table) <= MaxContent
        /\ content' = r.table
        /\ resp' = [op |-> "create", name |-> name, vers |-> vers,
                    response |-> [status |-> r.status]]
        /\ UNCHANGED <<domainEnabled, versions, repoRemote, dists, remoteArtifacts,
                       clock, tasks>>

\* a stored row is yanked or un-yanked through RustContentSerializer.update
ContentYank ==
    \E pk \in Pks, yanked \in BOOLEAN :
        /\ content' = [content EXCEPT ![pk] = serializer_update(@, [yanked |-> yanked])]
        /\ resp' = [op |-> "update", pk |-> pk, yanked |-> yanked,
                    response |-> [status |-> 200]]
        /\ UNCHANGED <<domainEnabled, versions, repoRemote, dists, remoteArtifacts,
                       clock, tasks>>

\* a stored row is added to repository ra: a new version with one more row
RepositoryModify ==
    \E pk \in Pks \ LatestRow("ra").content :
        /\ Len(versions["ra"]) <= MaxNewVersions
        /\ versions' = [versions EXCEPT !["ra"] =
               Append(@, RepositoryVersion(LatestRow("ra").content \cup {pk}, 0))]
        /\ resp' = [op |-> "modify", pk |-> pk, response |-> [status |-> 202]]
        /\ UNCHANGED <<domainEnabled, content, repoRemote, dists, remoteArtifacts,
                       clock, tasks>>

\* crate_version.dependencies.all() has no ordering: the database returns
\* the rows in an order of its choosing, which this step changes
DependencyScanOrder ==
    \E pk \in Pks : \E i, j \in 1..Len(content[pk].dependencies) :
        /\ i < j
        /\ content' = [content EXCEPT ![pk].dependencies =
               [@ EXCEPT ![i] = content[pk].dependencies[j],
                         ![j] = content[pk].dependencies[i]]]
        /\ UNCHANGED <<domainEnabled, versions, repoRemote, dists, remoteArtifacts,
                       clock, tasks, resp>>

\* GET of an index path under base path p
IndexGet ==
    \E path \in {<<Name_a>>, <<<<51>>, <<97>>, Name_Ab>>} :
        /\ resp' = [op |-> "index", dom |-> HomeDomain, repo |-> BasePath_p,
                    path |-> path,
                    response |-> index_retrieve(HomeDomain, BasePath_p, path)]
        /\ UNCHANGED Stored

NextContent ==
    \/ ContentCreate
    \/ ContentYank
    \/ RepositoryModify
    \/ DependencyScanOrder
    \/ IndexGet

SpecContent == InitContent /\ [][NextContent]_vars

----------------------------------------------------------------------------
(* Claims about the index lines and the content store.                     *)

\* the stored row a line of an index response was made from
RowOfLine(line) == content[PkOf(content, line.name, line.vers)]

IndexAnswered == resp.op = "index" /\ resp.response.status = 200

\* C11: in every emitted index line the key features2 is present if and
\* only if the row's features2 is neither null nor empty, the key
\* rust_version is present if and only if the row's rust_version is neither
\* null nor empty, and the keys name, vers, deps, cksum, features, yanked,
\* links and v are always present.
C11_OptionalKeysIffSet ==
    IndexAnswered =>
        \A i \in 1..Len(resp.response.lines) :
            LET line == resp.response.lines[i]
                row == RowOfLine(line) IN
            /\ ("features2" \in DOMAIN line)
                   <=> (row.features2 # NoneStr /\ row.features2 # "{}")
            /\ ("rust_version" \in DOMAIN line)
                   <=> (row.rust_version # NoneStr /\ row.rust_version # "")
            /\ {"name", "vers", "deps", "cksum", "features", "yanked", "links", "v"}
                   \subseteq DOMAIN line
            /\ DOMAIN line \subseteq
                   {"name", "vers", "deps", "cksum", "features", "yanked", "links", "v",
                    "features2", "rust_version"}

\* C11 witness: a line was emitted for a row whose features2 is set and
\* whose rust_version is the empty string
C11_Witness ==
    /\ IndexAnswered
    /\ \E i \in 1..Len(resp.response.lines) :
          /\ RowOfLine(resp.response.lines[i]).features2 = "{f}"
          /\ RowOfLine(resp.response.lines[i]).rust_version = ""
          /\ "features2" \in DOMAIN resp.response.lines[i]

\* C12: the index response depends only on the lowercased final segment of
\* the request path: every path whose final segment equals the requested
\* one ignoring case gets the same response from the same stored state,
\* whatever segments stand before it.
C12_OnlyFinalSegmentCounts ==
    resp.op = "index" =>
        \A other \in IndexPaths :
            Lower(other[Len(other)]) = Lower(resp.path[Len(resp.path)])
                => index_retrieve(resp.dom, resp.repo, other) = resp.response

\* C12 witness: a request whose path has a prefix and an uppercase final
\* segment got the lines of the crate, as the bare lowercase path does
C12_Witness ==
    /\ resp.op = "index"
    /\ resp.response.status = 200
    /\ resp.path = <<<<49>>, Name_A>>
    /\ index_retrieve(resp.dom, resp.repo, <<Name_a>>) = resp.response

\* the rows of the version the request resolves to that are stored under
\* the requested crate name (the final segment, lowercased)
MatchingRows ==
    LET rv == get_repository_version(RequestedDistribution.distro).rv IN
    {pk \in VersionContent(rv) :
        content[pk].name = Lower(resp.path[Len(resp.path)])}

\* C13: an index request is answered not-found whenever the content set it
\* resolves to is empty or holds no row with the requested crate name, and
\* a 200 response is never empty.
C13_NotFoundWhenNoMatch ==
    resp.op = "index" =>
        /\ resp.response.status = 200 => Len(resp.response.lines) >= 1
        /\ (RequestedDistribution.found
               /\ ~get_repository_version(RequestedDistribution.distro).raise
               /\ MatchingRows = {})
              => resp.response.status = 404

\* C13 witness: the resolved content set holds rows, none of them under the
\* requested name, and the answer is not-found
C13_Witness ==
    /\ resp.op = "index"
    /\ RequestedDistribution.found
    /\ get_rvc(RequestedDistribution.distro).kind = "ok"
    /\ get_rvc(RequestedDistribution.distro).content # {}
    /\ MatchingRows = {}
    /\ resp.response = NotFound("Crate not found")

\* C14: no two stored rows have the same (name, vers); a create request for
\* a (name, vers) that is stored is rejected and leaves the table, with the
\* dependencies and artifact paths it holds, as it was; any other create
\* request adds exactly one row.
C14_NameVersUnique ==
    /\ [](\A i, j \in Pks :
             i # j => <<content[i].name, content[i].vers>>
                          # <<content[j].name, content[j].vers>>)
    /\ [][(resp' # resp /\ resp'.op = "create")
            => IF \E i \in Pks : /\ content[i].name = resp'.name
                                 /\ content[i].vers = resp'.vers
               THEN resp'.response.status # 201 /\ content' = content
               ELSE /\ resp'.response.status = 201
                    /\ SubSeq(content', 1, Len(content)) = content
                    /\ Len(content') = Len(content) + 1]_vars

\* C14 witness: a create request for a stored (name, vers) was rejected
\* while the table holds a row created with dependencies
C14_Witness ==
    /\ resp.op = "create"
    /\ resp.response.status # 201
    /\ \E i \in Pks : content[i].name = resp.name /\ content[i].vers = resp.vers
    /\ \E i \in Pks : content[i].dependencies # <<>>

\* the index response for the crate a stored row is named after
IndexOfRow(pk) == index_retrieve(HomeDomain, BasePath_p, <<content[pk].name>>)

\* the index line of a stored row is in the response
Listed(response, pk) ==
    /\ response.status = 200
    /\ \E i \in 1..Len(response.lines) : response.lines[i] = version_obj(content[pk])

\* the rows the index of the home distribution can answer with: in the
\* served repository version and stored under a lowercase name
Served(pk) ==
    LET rvc == get_rvc(get_distribution(HomeDomain, BasePath_p).distro) IN
    /\ rvc.kind = "ok"
    /\ pk \in rvc.content
    /\ crate_name_of(<<content[pk].name>>) = content[pk].name

\* C15: yanking a stored row changes only its yanked field: every other
\* field of the row, its dependency list, every other row and the repository
\* versions are as before, the row's index line differs from the line before
\* yanking only in the value of yanked, and the row is still served; and in
\* every state, so before and after the yank, the index response for the
\* crate of a served row holds exactly that row's line.
C15_YankChangesOnlyYanked ==
    /\ [][(resp' # resp /\ resp'.op = "update")
            => \A pk \in Pks : resp'.pk = pk =>
               /\ content' = [content EXCEPT ![pk].yanked = resp'.yanked]
               /\ content'[pk].dependencies = content[pk].dependencies
               /\ versions' = versions
               /\ version_obj(content[pk])'
                     = [version_obj(content[pk]) EXCEPT !.yanked = resp'.yanked]
               /\ Served(pk)' = Served(pk)
               /\ Listed(IndexOfRow(pk), pk) => Served(pk)']_vars
    /\ [](\A pk \in Pks : Listed(IndexOfRow(pk), pk) <=> Served(pk))

\* C15 witness: a row with dependencies that is served in the index of its
\* crate has been yanked
C15_Witness ==
    /\ resp.op = "update"
    /\ resp.yanked
    /\ content[resp.pk].yanked
    /\ content[resp.pk].dependencies # <<>>
    /\ Served(resp.pk)
    /\ Listed(IndexOfRow(resp.pk), resp.pk)

\* ---------------------------------------------------------------------
\* The outcome of an immediate task (views.py, has_task_completed)
\* ---------------------------------------------------------------------

\* the states of a task record of the tasking system
TaskStates ==
    {"waiting", "skipped", "running", "completed", "failed", "canceled", "canceling"}

\* task.error: null unless the task failed, then the recorded error
NoError == [null |-> TRUE]
TaskErrors == {[null |-> FALSE, description |-> d] : d \in {"boom", "oops"}}

\* str(error) of Python: "None" for null, the printed mapping otherwise
str(error) ==
    IF error.null THEN "None"
    ELSE "{'description': '" \o error.description \o "'}"

Task(pk, state, error) == [pk |-> pk, state |-> state, error |-> error]

\* task.delete(): the record of the task leaves the table
task_delete(table, pk) == SelectSeq(table, LAMBDA t : t.pk # pk)

\* has_task_completed with the canceled branch folded into the failure branch
has_task_completed_no_throttle(table, task) ==
    IF task.state = "completed"
    THEN [outcome |-> [kind |-> "return", value |-> TRUE],
          table |-> task_delete(table, task.pk)]
    ELSE [outcome |-> [kind |-> "Exception", message |-> str(task.error)],
          table |-> task_delete(table, task.pk)]

\* has_task_completed(task): True and the record deleted when completed,
\* Throttled and the record kept when canceled, otherwise the error is read,
\* the record deleted and Exception(str(error)) raised
has_task_completed(table, task) ==
    IF task.state = "completed"
    THEN [outcome |-> [kind |-> "return", value |-> TRUE],
          table |-> task_delete(table, task.pk)]
    ELSE IF task.state = "canceled"
    THEN [outcome |-> [kind |-> "Throttled"], table |-> table]
    ELSE [outcome |-> [kind |-> "Exception", message |-> str(task.error)],
          table |-> task_delete(table, task.pk)]

\* the accesses with the error read only after the record was deleted
has_task_completed_accesses_late_read(task) ==
    IF task.state = "completed" THEN <<"state", "delete">>
    ELSE IF task.state = "canceled" THEN <<"state", "state">>
    ELSE <<"state", "state", "delete", "error">>

\* what has_task_completed does with the record, in program order: each test
\* of task.state is a read of the state, error = task.error a read of the
\* error, task.delete() the deletion
has_task_completed_accesses(task) ==
    IF task.state = "completed" THEN <<"state", "delete">>
    ELSE IF task.state = "canceled" THEN <<"state", "state">>
    ELSE <<"state", "state", "error", "delete">>

\* the task tables of at most MaxTasks records: a failed task carries its
\* error, every other one has none
TaskRows(pk) ==
    {Task(pk, state, NoError) : state \in TaskStates \ {"failed"}}
        \cup {Task(pk, "failed", error) : error \in TaskErrors}

TaskTables ==
    UNION {{t \in [1..n -> UNION {TaskRows(pk) : pk \in 1..n}] :
                \A i \in 1..n : t[i].pk = i} : n \in 1..MaxTasks}

InitOutcome ==
    /\ domainEnabled = FALSE
    /\ content = <<>>
    /\ versions = [r \in Repos |-> <<Version0>>]
    /\ dists = [k \in Domains \X BasePaths |-> NoDist]
    /\ repoRemote = [r \in Repos |-> NoneStr]
    /\ remoteArtifacts = {}
    /\ clock = 0
    /\ tasks \in TaskTables
    /\ resp = NoResponse

HasTaskCompleted ==
    \E i \in 1..Len(tasks) :
        LET r == has_task_completed(tasks, tasks[i]) IN
        /\ tasks' = r.table
        /\ resp' = [op |-> "has_task_completed", task |-> tasks[i],
                    outcome |-> r.outcome,
                    accesses |-> has_task_completed_accesses(tasks[i])]
        /\ UNCHANGED <<domainEnabled, content, versions, repoRemote, dists,
                       remoteArtifacts, clock>>

NextOutcome == HasTaskCompleted

SpecOutcome == InitOutcome /\ [][NextOutcome]_vars

\* C16: the outcome reported for a task follows its state: completed gives
\* success, canceled gives Throttled, every other state gives a failure that
\* carries the text of the task's error; a canceled task is reported neither
\* as a success nor as a failure.
C16_OutcomeByFinalState ==
    resp.op = "has_task_completed" =>
        /\ resp.task.state = "completed"
              => resp.outcome = [kind |-> "return", value |-> TRUE]
        /\ resp.task.state = "canceled"
              => /\ resp.outcome.kind = "Throttled"
                 /\ resp.outcome.kind \notin {"return", "Exception"}
        /\ resp.task.state \notin {"completed", "canceled"}
              => /\ resp.outcome.kind = "Exception"
                 /\ resp.outcome.message = str(resp.task.error)
                 /\ resp.task.state = "failed"
                       => resp.outcome.message
                             = "{'description': '" \o resp.task.error.description \o "'}"

\* C16 witness: a canceled task has been reported as Throttled, and its
\* record is still in the table
C16_Witness ==
    /\ resp.op = "has_task_completed"
    /\ resp.task.state = "canceled"
    /\ resp.outcome = [kind |-> "Throttled"]
    /\ \E i \in 1..Len(tasks) : tasks[i] = resp.task

\* the dependencies of a row in the order of their declaration, which is the
\* order in which create stored them
declared_deps(row) ==
    [k \in 1..Len(row.dependencies) |->
        dep_obj(CHOOSE d \in {row.dependencies[i] : i \in 1..Len(row.dependencies)} :
                    d.id = k)]

\* C17: the deps array of every index line lists the dependencies of its
\* package version in the order of their declaration, none missing, added or
\* reordered.
C17_DepsInDeclaredOrder ==
    IndexAnswered =>
        \A i \in 1..Len(resp.response.lines) :
            resp.response.lines[i].deps = declared_deps(RowOfLine(resp.response.lines[i]))

\* the stored rows a download request names: those of the requested name and
\* version in the latest version of the repository named like the crate
RequestedRows ==
    {pk \in Pks : \E r \in Repos :
        /\ RepoName(r) = resp.name
        /\ resp.request.dom = HomeDomain
        /\ content[pk].name = resp.name
        /\ content[pk].vers = resp.version
        /\ pk \in VersionContent(latest_version(r))}

\* the distributions a download request resolves to
RequestedDistros ==
    UNION {DistributionsOf(resp.request.dom, r) :
              r \in {x \in Repos : RepoName(x) = resp.name /\ resp.request.dom = HomeDomain}}

\* C18: a download request for a package version that is in the latest
\* version of its repository but has no artifact is answered not-found.
C18_NoArtifactNotFound ==
    (/\ resp.op = "download"
     /\ Cardinality(RequestedDistros) = 1
     /\ \E pk \in RequestedRows : content[pk].relative_path = NoneSeq)
    => resp.response.status = 404

\* the repository a download request names exists in the domain of the request
RepositoryResolved ==
    \E r \in Repos : RepoName(r) = resp.name /\ resp.request.dom = HomeDomain

\* C19: the download handler looks the repository up by name and then the
\* distribution bound to it in the domain: a redirect is answered only when
\* exactly one distribution is bound to the repository; with no repository
\* of that name or no distribution bound the answer is not-found; with two
\* or more distributions the answer is an error, neither redirect nor
\* not-found.
C19_RedirectNeedsOneDistribution ==
    resp.op = "download" =>
        /\ resp.response.status = 302
              => RepositoryResolved /\ Cardinality(RequestedDistros) = 1
        /\ (~RepositoryResolved \/ RequestedDistros = {})
              => resp.response.status = 404
        /\ Cardinality(RequestedDistros) >= 2
              => resp.response.status \notin {302, 404}

\* C19 witness: two distributions are bound to the repository whose latest
\* version holds the requested version with its artifact, and the answer is
\* the lookup error
C19_Witness ==
    /\ resp.op = "download"
    /\ Cardinality(RequestedDistros) = 2
    /\ \E pk \in RequestedRows : content[pk].relative_path # NoneSeq
    /\ resp.response = ServerError("MultipleObjectsReturned")

\* the name holds an uppercase letter
HasUpper(name) == \E i \in 1..Len(name) : name[i] >= 65 /\ name[i] <= 90

\* C20: a row stored under a name with an uppercase letter is in no index
\* response, whatever the case of the requested path: the requested name is
\* lowercased and then compared exactly with the stored names.
C20_UppercaseNamesNeverServed ==
    resp.op = "index" =>
        /\ resp.response.status = 200
              => \A i \in 1..Len(resp.response.lines) :
                    ~HasUpper(resp.response.lines[i].name)
        /\ \A path \in IndexPaths :
              LET response == index_retrieve(resp.dom, resp.repo, path) IN
              response.status = 200
                  => \A pk \in Pks : HasUpper(content[pk].name)
                        => \A i \in 1..Len(response.lines) :
                              response.lines[i] # version_obj(content[pk])

\* C20 witness: the served repository version holds a row stored under a
\* name with an uppercase letter, the request names it in that very case,
\* and the answer is that the crate is not found
C20_Witness ==
    /\ resp.op = "index"
    /\ RequestedDistribution.found
    /\ get_rvc(RequestedDistribution.distro).kind = "ok"
    /\ \E pk \in get_rvc(RequestedDistribution.distro).content :
          /\ HasUpper(content[pk].name)
          /\ content[pk].name = resp.path[Len(resp.path)]
    /\ resp.response = NotFound("Crate not found")

\* the record of the task is in the table
Recorded(table, task) == \E i \in 1..Len(table) : table[i].pk = task.pk

\* C21: has_task_completed deletes the record of a completed and of a failed
\* task and leaves the record of a canceled task, and the whole table with
\* it, as it was; a deletion happens only after the state was read and, when
\* the outcome is a failure, after the error was read.
C21_DeletesAfterReadingOutcome ==
    [][\A t \in {tasks[i] : i \in 1..Len(tasks)} :
          (resp'.op = "has_task_completed" /\ resp'.task = t) =>
             /\ t.state \in {"completed", "failed"}
                   => /\ ~Recorded(tasks', t)
                      /\ tasks' = task_delete(tasks, t.pk)
             /\ t.state = "canceled" => tasks' = tasks
             /\ Recorded(tasks', t) <=> \A k \in 1..Len(resp'.accesses) :
                                            resp'.accesses[k] # "delete"
             /\ \A k \in 1..Len(resp'.accesses) :
                   resp'.accesses[k] = "delete"
                      => /\ \E j \in 1..(k - 1) : resp'.accesses[j] = "state"
                         /\ resp'.outcome.kind = "Exception"
                               => \E j \in 1..(k - 1) : resp'.accesses[j] = "error"]_vars

\* C21 witness: a failed task was reported with its error and its record is
\* gone, while the record of a canceled task is still in the table
C21_Witness ==
    /\ resp.op = "has_task_completed"
    /\ resp.task.state = "failed"
    /\ resp.outcome = [kind |-> "Exception", message |-> str(resp.task.error)]
    /\ ~Recorded(tasks, resp.task)
    /\ \E i \in 1..Len(tasks) : tasks[i].state = "canceled"

====
